---- MODULE Spec2Model ----
(***************************************************************************)
(* A model of @entrolytics/astro: the build-time integration               *)
(* (src/src/index.ts: option resolution, script tag, config snippet) and   *)
(* the client module (src/unnamed/part_001: waitForTracker, the tracker    *)
(* dispatchers, trackVital, trackFormEvent and createFormTracker).         *)
(*                                                                         *)
(* Representation.                                                         *)
(*  - A JavaScript string is a sequence of tokens; the token "/" is the    *)
(*    slash character and no other token contains a slash at its end, so   *)
(*    the empty string is << >> and concatenation is \o.                   *)
(*  - An optional value (undefined or null in the source) is a set with at *)
(*    most one element: {} is undefined/null, {v} is the value v.          *)
(***************************************************************************)
EXTENDS Integers, Sequences, FiniteSets, TLC

VARIABLES
    \* ---- build time (src/src/index.ts) ----
    options,      \* the caller's options object given to entrolytics()
    metaEnv,      \* import.meta.env (optional)
    buildPc,      \* "start" | "thrown" | "resolved" | "setup"
    buildTrace,   \* what entrolytics() did, in order: console.warn, throw
    finalOptions, \* optional: the closure's finalOptions (the integration exists)
    closure,      \* optional: the closure's websiteId and host constants
    injected,     \* injectScript calls of the latest astro:config:setup run
    \* ---- client: form tracking and direct collection (part_001) ----
    hasWindow,    \* typeof window !== 'undefined'
    config,       \* window.__entrolytics_config (optional)
    now,          \* the last value Date.now() returned
    startTime,    \* createFormTracker: startTime (optional number)
    fieldStartTimes, \* createFormTracker: the Map, as field -> optional number
    sinceReset,   \* history: the fields focused since creation / last submit
    everFocused,  \* history: the fields focused since creation
    lastOp,       \* history: the latest client operation and its arguments
    calls,        \* the trackVital / trackFormEvent calls the latest operation made
    \* ---- client: dispatchers that wait for the tracker (part_001) ----
    tracker,      \* window.entrolytics is present
    waits,        \* one record per dispatcher call, in call order
    delivered     \* the calls the tracker's track / identify received, in order

buildVars == <<options, metaEnv, buildPc, buildTrace, finalOptions, closure, injected>>
formVars ==
    <<config, now, startTime, fieldStartTimes, sinceReset, everFocused, lastOp, calls>>
waitVars == <<tracker, waits, delivered>>
vars == <<buildVars, hasWindow, formVars, waitVars>>

----------------------------------------------------------------------------
(* Optional values and JavaScript truthiness *)

Undefined == {}
Some(v) == {v}
Get(o) == CHOOSE v \in o : TRUE
\* a destructuring default / ?? : only undefined takes the default
OrDefault(o, d) == IF o = Undefined THEN d ELSE Get(o)
\* truthiness of an optional string or array-free value: undefined and "" are falsy
TruthyStr(o) == o # Undefined /\ Get(o) # << >>
\* truthiness of an optional boolean
TruthyBool(o) == o # Undefined /\ Get(o) = TRUE
\* truthiness of an optional number: undefined, null and 0 are falsy
TruthyNum(o) == o # Undefined /\ Get(o) # 0
\* a || b on optional strings: a when truthy, else b
OrElse(a, b) == IF TruthyStr(a) THEN a ELSE b

----------------------------------------------------------------------------
(* Strings *)

SLASH == "/"
RECURSIVE StripAllTrailingSlashes(_)
\* mutant: the regex /\/+$/, which removes every slash at the end
StripAllTrailingSlashes(s) ==
    IF Len(s) > 0 /\ s[Len(s)] = SLASH
    THEN StripAllTrailingSlashes(SubSeq(s, 1, Len(s) - 1))
    ELSE s

\* String.prototype.replace(/\/$/, ''): removes one slash at the very end
StripTrailingSlashRegex(s) ==
    IF Len(s) > 0 /\ s[Len(s)] = SLASH THEN SubSeq(s, 1, Len(s) - 1) ELSE s

RECURSIVE Join(_, _)
\* Array.prototype.join(sep) on an array of strings
Join(arr, sep) ==
    IF Len(arr) = 0 THEN << >>
    ELSE IF Len(arr) = 1 THEN arr[1]
    ELSE arr[1] \o sep \o Join(Tail(arr), sep)

----------------------------------------------------------------------------
(* Build time: src/src/index.ts *)

DEFAULT_HOST == <<"https:", SLASH, SLASH, "entrolytics.click">>

Attr(n, v) == [name |-> n, value |-> Some(v)]
BareAttr(n) == [name |-> n, value |-> Undefined]
When(c, s) == IF c THEN s ELSE << >>

\* generateScriptTag: the <script> element, as the list of its attributes in
\* the order they are joined
generateScriptTag(o) ==
    LET websiteId == o.websiteId
        host == OrDefault(o.host, DEFAULT_HOST)
        autoTrack == OrDefault(o.autoTrack, TRUE)
        trackOutboundLinks == OrDefault(o.trackOutboundLinks, TRUE)
        trackFileDownloads == OrDefault(o.trackFileDownloads, FALSE)
        respectDnt == OrDefault(o.respectDnt, FALSE)
        domains == o.domains
        useEdgeRuntime == OrDefault(o.useEdgeRuntime, TRUE)
        tag == o.tag
        excludeSearch == OrDefault(o.excludeSearch, FALSE)
        excludeHash == OrDefault(o.excludeHash, FALSE)
        scriptPath == IF useEdgeRuntime THEN <<SLASH, "script-edge.js">>
                                        ELSE <<SLASH, "script.js">>
        scriptUrl == StripTrailingSlashRegex(host) \o scriptPath
        attributes ==
            << Attr("src", scriptUrl), Attr("data-website-id", websiteId),
               BareAttr("defer") >>
            \o When(~autoTrack, << Attr("data-auto-track", <<"false">>) >>)
            \o When(trackOutboundLinks,
                    << Attr("data-track-outbound-links", <<"true">>) >>)
            \o When(trackFileDownloads,
                    << Attr("data-track-file-downloads", <<"true">>) >>)
            \o When(respectDnt, << Attr("data-do-not-track", <<"true">>) >>)
            \o When(domains # Undefined /\ Len(Get(domains)) > 0,
                    << Attr("data-domains", Join(Get(domains), <<",">>)) >>)
            \o When(TruthyStr(tag), << Attr("data-tag", Get(tag)) >>)
            \o When(excludeSearch, << Attr("data-exclude-search", <<"true">>) >>)
            \o When(excludeHash, << Attr("data-exclude-hash", <<"true">>) >>)
    IN  [element |-> "script", attributes |-> attributes]

\* the inline snippet assigning window.__entrolytics_config
configScript(websiteId, host) ==
    [element |-> "script",
     assigns |-> "window.__entrolytics_config",
     object  |-> [websiteId |-> websiteId, host |-> StripTrailingSlashRegex(host)]]

\* the 'page' snippet: an astro:page-load listener with an empty body
pageScript == [listener |-> "astro:page-load"]

\* (import.meta as any).env || {}
EmptyEnv ==
    [PUBLIC_ENTROLYTICS_WEBSITE_ID |-> Undefined, VITE_ENTROLYTICS_WEBSITE_ID |-> Undefined,
     PUBLIC_ENTROLYTICS_HOST |-> Undefined, VITE_ENTROLYTICS_HOST |-> Undefined,
     DEV |-> Undefined]
EnvOf(m) == OrDefault(m, EmptyEnv)

\* mutant: the environment is asked before the caller's option
ResolveWebsiteIdEnvFirst(o, env) ==
    OrElse(OrElse(env.PUBLIC_ENTROLYTICS_WEBSITE_ID, env.VITE_ENTROLYTICS_WEBSITE_ID),
           o.websiteId)

\* options.websiteId || env.PUBLIC_ENTROLYTICS_WEBSITE_ID || env.VITE_ENTROLYTICS_WEBSITE_ID
ResolveWebsiteId(o, env) ==
    OrElse(OrElse(o.websiteId, env.PUBLIC_ENTROLYTICS_WEBSITE_ID),
           env.VITE_ENTROLYTICS_WEBSITE_ID)

\* options.host || env.PUBLIC_ENTROLYTICS_HOST || env.VITE_ENTROLYTICS_HOST || DEFAULT_HOST
ResolveHost(o, env) ==
    OrElse(OrElse(OrElse(o.host, env.PUBLIC_ENTROLYTICS_HOST), env.VITE_ENTROLYTICS_HOST),
           Some(DEFAULT_HOST))

WarnMissing == [kind |-> "console.warn", message |-> "Missing websiteId"]
ThrowRequired == [kind |-> "throw", message |-> "websiteId is required"]

\* what the failing branch of entrolytics() does, in order
MissingWebsiteId(env) ==
    When(TruthyBool(env.DEV), <<WarnMissing>>) \o <<ThrowRequired>>

\* mutant: if (websiteId === undefined), which lets the empty string through
WebsiteIdMissingUndefinedOnly(websiteId) == websiteId = Undefined

\* the guard of the failing branch: if (!websiteId)
WebsiteIdMissing(websiteId) == ~TruthyStr(websiteId)

FinalOptions(o, websiteId, host) ==
    [websiteId |-> Get(websiteId), host |-> host,
     autoTrack |-> o.autoTrack, trackOutboundLinks |-> o.trackOutboundLinks,
     trackFileDownloads |-> o.trackFileDownloads, respectDnt |-> o.respectDnt,
     domains |-> o.domains, cacheScript |-> o.cacheScript,
     useEdgeRuntime |-> o.useEdgeRuntime, tag |-> o.tag,
     excludeSearch |-> o.excludeSearch, excludeHash |-> o.excludeHash]

\* entrolytics(options): resolve, validate, build the integration
Entrolytics ==
    /\ buildPc = "start"
    /\ LET env == EnvOf(metaEnv)
           websiteId == ResolveWebsiteId(options, env)
           host == ResolveHost(options, env)
       IN  IF WebsiteIdMissing(websiteId)
           THEN /\ buildTrace' = MissingWebsiteId(env)
                /\ buildPc' = "thrown"
                /\ UNCHANGED <<finalOptions, closure>>
           ELSE /\ buildTrace' = << >>
                /\ buildPc' = "resolved"
                /\ finalOptions' = Some(FinalOptions(options, websiteId, host))
                /\ closure' = Some([websiteId |-> Get(websiteId), host |-> Get(host)])
    /\ UNCHANGED <<options, metaEnv, injected>>

Inject(stage, content) == [stage |-> stage, content |-> content]

\* mutant: the script tag is injected ahead of the config snippet
SetupInjectionsTagFirst(fo, c) ==
    << [stage |-> "head-inline", content |-> generateScriptTag(fo)],
       [stage |-> "head-inline", content |-> configScript(c.websiteId, c.host)],
       [stage |-> "page", content |-> pageScript] >>

\* the injectScript calls of one run of the hook, in order
SetupInjections(fo, c) ==
    << Inject("head-inline", configScript(c.websiteId, c.host)),
       Inject("head-inline", generateScriptTag(fo)),
       Inject("page", pageScript) >>

\* hooks['astro:config:setup']({ injectScript })
ConfigSetup ==
    /\ buildPc \in {"resolved", "setup"}
    /\ injected' = SetupInjections(Get(finalOptions), Get(closure))
    /\ buildPc' = "setup"
    /\ UNCHANGED <<options, metaEnv, buildTrace, finalOptions, closure>>


----------------------------------------------------------------------------
(* Build time: the inputs and the specification *)

\* at most this many of the optional flags (all but websiteId and host) are
\* given explicitly in one options object
MaxFlagsSet == 2

OptBool == {Undefined, Some(TRUE), Some(FALSE)}
XHost == <<"https:", SLASH, SLASH, "x.com">>
HostInputs ==
    {Undefined, Some(<< >>), Some(XHost), Some(XHost \o <<SLASH>>),
     Some(XHost \o <<SLASH, SLASH>>)}
WebsiteIdInputs == {Undefined, Some(<< >>), Some(<<"site-1">>)}
DomainsInputs ==
    {Undefined, Some(<< >>), Some(<< <<"a.com">> >>),
     Some(<< <<"a.com">>, <<"b.com">> >>)}
TagInputs == {Undefined, Some(<< >>), Some(<<"variant-a">>)}

FlagNames ==
    {"autoTrack", "trackOutboundLinks", "trackFileDownloads", "respectDnt",
     "domains", "cacheScript", "useEdgeRuntime", "tag", "excludeSearch",
     "excludeHash"}
FlagsGiven(o) == Cardinality({n \in FlagNames : o[n] # Undefined})

OptionInputs ==
    {o \in [websiteId : WebsiteIdInputs, host : HostInputs,
            autoTrack : OptBool, trackOutboundLinks : OptBool,
            trackFileDownloads : OptBool, respectDnt : OptBool,
            domains : DomainsInputs, cacheScript : OptBool,
            useEdgeRuntime : OptBool, tag : TagInputs,
            excludeSearch : OptBool, excludeHash : OptBool] :
        FlagsGiven(o) <= MaxFlagsSet}

EnvInputs ==
    {Undefined} \cup
    {Some(e) : e \in
        [PUBLIC_ENTROLYTICS_WEBSITE_ID : {Undefined, Some(<< >>), Some(<<"pub-id">>)},
         VITE_ENTROLYTICS_WEBSITE_ID : {Undefined, Some(<< >>), Some(<<"vite-id">>)},
         PUBLIC_ENTROLYTICS_HOST :
            {Undefined, Some(<<"https:", SLASH, SLASH, "pub.example", SLASH>>)},
         VITE_ENTROLYTICS_HOST :
            {Undefined, Some(<<"https:", SLASH, SLASH, "vite.example">>)},
         DEV : {Some(FALSE), Some(TRUE)}]}

BuildIdle ==
    /\ buildPc = "start"
    /\ buildTrace = << >>
    /\ finalOptions = Undefined
    /\ closure = Undefined
    /\ injected = << >>

----------------------------------------------------------------------------
(* Client: trackVital, trackFormEvent (src/unnamed/part_001) *)

\* window.location of the page the client module runs in
LocationPathname == <<SLASH, "signup">>
LocationHref == <<"https:", SLASH, SLASH, "site.example", SLASH, "signup">>

\* getConfig(): window.__entrolytics_config || null, null without a window
getConfig == IF ~hasWindow THEN Undefined ELSE config

ConfigWarning == [level |-> "warn", message |-> "Config not found"]
VitalError == [level |-> "error", message |-> "Failed to track vital"]
FormError == [level |-> "error", message |-> "Failed to track form event"]

CollectUrl(host, leaf) == host \o <<SLASH, "api", SLASH, "collect", SLASH, leaf>>
Post(url, body) == [method |-> "POST", url |-> url, body |-> body, keepalive |-> TRUE]

\* One call of an async collector, as far as it runs before it first awaits:
\*   cfg      its local const config
\*   console  what it logged, in order
\*   posts    the fetch() calls it made, in order
\*   promise  "pending" while it awaits fetch, else "fulfilled" / "rejected"
\*   fetched  how its fetch settled: "ok" / "failed", "none" before or without
Call(fn, data, cfg, console, posts, promise) ==
    [fn |-> fn, data |-> data, cfg |-> cfg, console |-> console, posts |-> posts,
     promise |-> promise, fetched |-> "none"]

\* JSON.stringify throws on a cyclic attribution object
Serializable(payload) == payload.attribution # Some("cyclic")

VitalPayload(cfg, data) ==
    [website |-> cfg.websiteId, metric |-> data.metric, value |-> data.value,
     rating |-> data.rating, delta |-> data.delta, id |-> data.id,
     navigationType |-> data.navigationType, attribution |-> data.attribution,
     url |-> LocationHref, path |-> LocationPathname]

\* trackVital(data), up to its first await
trackVital(data) ==
    IF ~hasWindow THEN Call("trackVital", data, Undefined, << >>, << >>, "fulfilled")
    ELSE LET cfg == getConfig IN
         IF cfg = Undefined
         THEN Call("trackVital", data, cfg, <<ConfigWarning>>, << >>, "fulfilled")
         ELSE LET payload == VitalPayload(Get(cfg), data) IN
              IF Serializable(payload)
              THEN Call("trackVital", data, cfg, << >>,
                        <<Post(CollectUrl(Get(cfg).host, "vitals"), payload)>>, "pending")
              ELSE Call("trackVital", data, cfg, <<VitalError>>, << >>, "fulfilled")

FormPayload(cfg, data) ==
    [website |-> cfg.websiteId, eventType |-> data.eventType, formId |-> data.formId,
     formName |-> data.formName,
     urlPath |-> IF TruthyStr(data.urlPath) THEN Get(data.urlPath) ELSE LocationPathname,
     fieldName |-> data.fieldName, fieldType |-> data.fieldType,
     fieldIndex |-> data.fieldIndex, timeOnField |-> data.timeOnField,
     timeSinceStart |-> data.timeSinceStart, errorMessage |-> data.errorMessage,
     success |-> data.success]

\* mutant: no check of config, so config.host throws outside the try block
trackFormEventUnguarded(data) ==
    IF ~hasWindow THEN Call("trackFormEvent", data, Undefined, << >>, << >>, "fulfilled")
    ELSE LET cfg == getConfig IN
         IF cfg = Undefined
         THEN Call("trackFormEvent", data, cfg, << >>, << >>, "rejected")
         ELSE Call("trackFormEvent", data, cfg, << >>,
                   <<Post(CollectUrl(Get(cfg).host, "forms"), FormPayload(Get(cfg), data))>>,
                   "pending")

\* trackFormEvent(data), up to its first await
trackFormEvent(data) ==
    IF ~hasWindow THEN Call("trackFormEvent", data, Undefined, << >>, << >>, "fulfilled")
    ELSE LET cfg == getConfig IN
         IF cfg = Undefined
         THEN Call("trackFormEvent", data, cfg, <<ConfigWarning>>, << >>, "fulfilled")
         ELSE Call("trackFormEvent", data, cfg, << >>,
                   <<Post(CollectUrl(Get(cfg).host, "forms"), FormPayload(Get(cfg), data))>>,
                   "pending")

\* the catch block of a collector
CatchError(fn) == IF fn = "trackVital" THEN VitalError ELSE FormError

\* mutant: the catch block logs and throws again
AfterFetchRethrows(c, ok) ==
    [c EXCEPT !.console = IF ok THEN @ ELSE Append(@, CatchError(c.fn)),
              !.promise = IF ok THEN "fulfilled" ELSE "rejected",
              !.fetched = IF ok THEN "ok" ELSE "failed"]

\* the rest of a collector once its fetch settles: the await returns, or the
\* catch block logs; either way the async function then returns
AfterFetch(c, ok) ==
    [c EXCEPT !.console = IF ok THEN @ ELSE Append(@, CatchError(c.fn)),
              !.promise = "fulfilled",
              !.fetched = IF ok THEN "ok" ELSE "failed"]

\* a FormEventData with every optional member absent
FormEvent(eventType, formId, formName) ==
    [eventType |-> eventType, formId |-> formId, formName |-> formName,
     urlPath |-> Undefined, fieldName |-> Undefined, fieldType |-> Undefined,
     fieldIndex |-> Undefined, timeOnField |-> Undefined, timeSinceStart |-> Undefined,
     errorMessage |-> Undefined, success |-> Undefined]

----------------------------------------------------------------------------
(* Client: createFormTracker (src/unnamed/part_001) *)

\* the largest value Date.now() returns in the model
MaxTime == 4

FormId == "signup-form"
FormName == Some("Signup Form")
Fields == {"email", "name"}
NoField == "-"

\* the values a Date.now() call may return after the clock showed t
Clock(t) == t .. MaxTime

\* what the latest operation was: its name, its field argument, the values its
\* Date.now() calls returned in order, and the session state it found
Op(name, field, stamps) ==
    [op |-> name, field |-> field, stamps |-> stamps, preStart |-> startTime,
     preField |-> IF field \in Fields THEN fieldStartTimes[field] ELSE Undefined]

\* mutant: Date.now() - startTime without the guard, null counting as 0
ElapsedUnguarded(since, t) == Some(t - OrDefault(since, 0))

\* startTime ? Date.now() - startTime : undefined
Elapsed(since, t) == IF TruthyNum(since) THEN Some(t - Get(since)) ELSE Undefined

\* mutant: trackFieldFocus starts the session on every call
NeedsStartAlways(st) == TRUE

\* the condition under which trackFieldFocus starts the session: if (!startTime)
NeedsStart(st) == ~TruthyNum(st)

\* mutant: trackSubmit forgets fieldStartTimes.clear()
SubmitKeepsFieldTimes == [startTime |-> Undefined, fieldStartTimes |-> fieldStartTimes]

\* the session state trackSubmit leaves: startTime = null; fieldStartTimes.clear()
SubmitReset == [startTime |-> Undefined, fieldStartTimes |-> [f \in Fields |-> Undefined]]

\* tracker.trackStart()
TrackStart ==
    \E t \in Clock(now) :
        /\ startTime' = Some(t)
        /\ now' = t
        /\ calls' = <<trackFormEvent(FormEvent("start", FormId, FormName))>>
        /\ lastOp' = Op("trackStart", NoField, <<t>>)
        /\ UNCHANGED <<config, fieldStartTimes, sinceReset, everFocused>>

FocusEvent(f, fieldType, fieldIndex, tss) ==
    [FormEvent("field_focus", FormId, FormName) EXCEPT
        !.fieldName = Some(f), !.fieldType = fieldType, !.fieldIndex = fieldIndex,
        !.timeSinceStart = Some(tss)]

\* tracker.trackFieldFocus(fieldName, fieldType, fieldIndex)
TrackFieldFocus(f, fieldType, fieldIndex) ==
    \E t1 \in Clock(now) : \E t2 \in Clock(t1) : \E t3 \in Clock(t2) :
        LET starts == NeedsStart(startTime)
            st == IF starts THEN t1 ELSE Get(startTime)
        IN  /\ starts \/ t1 = now      \* line 392 runs only when the session starts
            /\ startTime' = Some(st)
            /\ fieldStartTimes' = [fieldStartTimes EXCEPT ![f] = Some(t2)]
            /\ now' = t3
            /\ calls' =
                 When(starts, <<trackFormEvent(FormEvent("start", FormId, FormName))>>)
                 \o <<trackFormEvent(FocusEvent(f, fieldType, fieldIndex, t3 - st))>>
            /\ lastOp' = Op("trackFieldFocus", f,
                            IF starts THEN <<t1, t2, t3>> ELSE <<t2, t3>>)
            /\ sinceReset' = sinceReset \cup {f}
            /\ everFocused' = everFocused \cup {f}
            /\ UNCHANGED config

BlurEvent(f, fieldType, fieldIndex, tof, tss) ==
    [FormEvent("field_blur", FormId, FormName) EXCEPT
        !.fieldName = Some(f), !.fieldType = fieldType, !.fieldIndex = fieldIndex,
        !.timeOnField = tof, !.timeSinceStart = tss]

\* tracker.trackFieldBlur(fieldName, fieldType, fieldIndex)
TrackFieldBlur(f, fieldType, fieldIndex) ==
    \E t1 \in Clock(now) : \E t2 \in Clock(t1) :
        LET fieldStart == fieldStartTimes[f]
        IN  /\ TruthyNum(fieldStart) \/ t1 = now  \* line 416 reads the clock only then
            /\ TruthyNum(startTime) \/ t2 = t1   \* line 417 likewise
            /\ now' = t2
            /\ calls' = <<trackFormEvent(BlurEvent(f, fieldType, fieldIndex,
                              Elapsed(fieldStart, t1), Elapsed(startTime, t2)))>>
            /\ lastOp' = Op("trackFieldBlur", f, <<t1, t2>>)
            /\ UNCHANGED <<config, startTime, fieldStartTimes, sinceReset, everFocused>>

ErrorEvent(f, errorMessage, fieldType, fieldIndex, tss) ==
    [FormEvent("field_error", FormId, FormName) EXCEPT
        !.fieldName = Some(f), !.fieldType = fieldType, !.fieldIndex = fieldIndex,
        !.errorMessage = Some(errorMessage), !.timeSinceStart = tss]

\* tracker.trackFieldError(fieldName, errorMessage, fieldType, fieldIndex)
TrackFieldError(f, errorMessage, fieldType, fieldIndex) ==
    \E t \in Clock(now) :
        /\ TruthyNum(startTime) \/ t = now
        /\ now' = t
        /\ calls' = <<trackFormEvent(ErrorEvent(f, errorMessage, fieldType, fieldIndex,
                          Elapsed(startTime, t)))>>
        /\ lastOp' = Op("trackFieldError", f, <<t>>)
        /\ UNCHANGED <<config, startTime, fieldStartTimes, sinceReset, everFocused>>

SubmitEvent(success, tss) ==
    [FormEvent("submit", FormId, FormName) EXCEPT
        !.success = Some(success), !.timeSinceStart = tss]

\* tracker.trackSubmit(success)
TrackSubmit(success) ==
    \E t \in Clock(now) :
        /\ TruthyNum(startTime) \/ t = now
        /\ now' = t
        /\ calls' = <<trackFormEvent(SubmitEvent(success, Elapsed(startTime, t)))>>
        /\ startTime' = SubmitReset.startTime
        /\ fieldStartTimes' = SubmitReset.fieldStartTimes
        /\ lastOp' = Op("trackSubmit", NoField, <<t>>)
        /\ sinceReset' = {}
        /\ UNCHANGED <<config, everFocused>>

AbandonEvent(tss) ==
    [FormEvent("abandon", FormId, FormName) EXCEPT !.timeSinceStart = tss]

\* mutant: trackAbandon resets the session the way trackSubmit does
TrackAbandonResets ==
    \E t \in Clock(now) :
        /\ TruthyNum(startTime) \/ t = now
        /\ now' = t
        /\ calls' = <<trackFormEvent(AbandonEvent(Elapsed(startTime, t)))>>
        /\ startTime' = Undefined
        /\ fieldStartTimes' = [f \in Fields |-> Undefined]
        /\ lastOp' = Op("trackAbandon", NoField, <<t>>)
        /\ sinceReset' = {}
        /\ UNCHANGED <<config, everFocused>>

\* tracker.trackAbandon()
TrackAbandon ==
    \E t \in Clock(now) :
        /\ TruthyNum(startTime) \/ t = now
        /\ now' = t
        /\ calls' = <<trackFormEvent(AbandonEvent(Elapsed(startTime, t)))>>
        /\ lastOp' = Op("trackAbandon", NoField, <<t>>)
        /\ UNCHANGED <<config, startTime, fieldStartTimes, sinceReset, everFocused>>

----------------------------------------------------------------------------
(* Client: direct calls of the collectors, the network, the page *)

VitalInputs ==
    [metric : {"LCP", "CLS"}, value : {2500}, rating : {"good"},
     delta : {Undefined}, id : {Undefined}, navigationType : {Undefined},
     attribution : {Undefined, Some("plain"), Some("cyclic")}]

\* page code (or a web-vitals callback of initWebVitals) calls trackVital(data)
TrackVital(data) ==
    /\ calls' = <<trackVital(data)>>
    /\ lastOp' = Op("trackVital", NoField, << >>)
    /\ UNCHANGED <<config, now, startTime, fieldStartTimes, sinceReset, everFocused>>

DirectFormInputs ==
    {[FormEvent(e, "contact-form", Undefined) EXCEPT !.urlPath = u, !.success = Some(TRUE)] :
        e \in {"submit"}, u \in {Undefined, Some(<< >>), Some(<<SLASH, "contact">>)}}

\* page code calls trackFormEvent(data) itself
TrackFormEvent(data) ==
    /\ calls' = <<trackFormEvent(data)>>
    /\ lastOp' = Op("trackFormEvent", NoField, << >>)
    /\ UNCHANGED <<config, now, startTime, fieldStartTimes, sinceReset, everFocused>>

\* the fetch of call i settles: it resolves (ok) or rejects
FetchSettles(i, ok) ==
    /\ i \in 1 .. Len(calls)
    /\ calls[i].promise = "pending"
    /\ calls' = [calls EXCEPT ![i] = AfterFetch(@, ok)]
    /\ UNCHANGED <<config, now, startTime, fieldStartTimes, sinceReset, everFocused, lastOp>>

PageConfig == [websiteId |-> <<"site-1">>, host |-> XHost]

\* the inline snippet the integration injected runs
ConfigSnippetRuns ==
    /\ hasWindow
    /\ config = Undefined
    /\ config' = Some(PageConfig)
    /\ UNCHANGED <<now, startTime, fieldStartTimes, sinceReset, everFocused, lastOp, calls>>

FormIdle ==
    /\ config = Undefined
    /\ now = 1     \* Date.now() is positive: no timestamp is the falsy 0
    /\ startTime = Undefined
    /\ fieldStartTimes = [f \in Fields |-> Undefined]
    /\ sinceReset = {}
    /\ everFocused = {}
    /\ lastOp = [op |-> "createFormTracker", field |-> NoField, stamps |-> << >>,
                 preStart |-> Undefined, preField |-> Undefined]
    /\ calls = << >>

----------------------------------------------------------------------------
(* Client: the dispatchers that wait for the tracker (src/unnamed/part_001) *)

\* the number of dispatcher calls page code makes
MaxWaits == 2

\* { ...a, ...b }: the keys of both, b's value where both have the key
Spread(a, b) ==
    [k \in DOMAIN a \cup DOMAIN b |-> IF k \in DOMAIN b THEN b[k] ELSE a[k]]
\* ...data of an optional object: nothing when it is undefined
Obj(o) == IF o = Undefined THEN << >> ELSE Get(o)
EmptyObj == << >>

TrackCall(args) == [method |-> "track", args |-> args]
IdentifyCall(args) == [method |-> "identify", args |-> args]

\* the delegation each dispatcher's callback makes, from the dispatcher's arguments
trackEvent(eventName, eventData) == TrackCall(<<Some(eventName), eventData>>)
\* mutant: { revenue, currency, ...data }, where the keys of data win
trackRevenueDataWins(eventName, revenue, currency, data) ==
    TrackCall(<<Some(eventName),
                Some(Spread([revenue |-> revenue, currency |-> OrDefault(currency, "USD")],
                            Obj(data)))>>)

trackRevenue(eventName, revenue, currency, data) ==
    TrackCall(<<Some(eventName),
                Some(Spread(Obj(data),
                            [revenue |-> revenue, currency |-> OrDefault(currency, "USD")]))>>)
trackOutboundLink(url, data) ==
    TrackCall(<<Some("outbound-link-click"), Some(Spread(Obj(data), [url |-> url]))>>)
identify(data) == IdentifyCall(<<Some(data)>>)
identifyUser(userId, traits) ==
    IdentifyCall(<<Some(Spread([id |-> userId], Obj(traits)))>>)
trackPageView(url, referrer) ==
    TrackCall(<<Some(Spread(IF TruthyStr(url) THEN [url |-> Get(url)] ELSE EmptyObj,
                            IF TruthyStr(referrer) THEN [referrer |-> Get(referrer)]
                                                   ELSE EmptyObj))>>)

\* the dispatcher calls page code may make: the function, its arguments and
\* the delegation its callback makes
Dispatch(fn, args, callback) == [fn |-> fn, args |-> args, callback |-> callback]
DispatchInputs ==
    {Dispatch("trackEvent", <<"signup", d>>, trackEvent("signup", d)) :
        d \in {Undefined, Some([plan |-> "pro"])}}
    \cup
    {Dispatch("trackRevenue", <<"purchase", 99, c, d>>, trackRevenue("purchase", 99, c, d)) :
        c \in {Undefined, Some("EUR")},
        d \in {Undefined, Some([productId |-> "abc"]),
               Some([revenue |-> 1, currency |-> "GBP"])}}
    \cup
    {Dispatch("trackOutboundLink", <<"https://out.example", d>>,
              trackOutboundLink("https://out.example", d)) :
        d \in {Undefined, Some([url |-> "https://other.example"])}}
    \cup
    {Dispatch("identify", <<d>>, identify(d)) : d \in {[plan |-> "pro"]}}
    \cup
    {Dispatch("identifyUser", <<"user-1", t>>, identifyUser("user-1", t)) :
        t \in {Undefined, Some([id |-> "user-2"])}}
    \cup
    {Dispatch("trackPageView", <<u, r>>, trackPageView(u, r)) :
        u \in {Undefined, Some(<<SLASH, "pricing">>)},
        r \in {Undefined, Some(<< >>)}}

\* One waitForTracker call:
\*   timer  a setTimeout(tryExecute, 100) of it is pending
\*   runs   how many times its callback has been called
Wait(d) == [call |-> d, timer |-> FALSE, runs |-> 0]

\* mutant: a single check, no timer when the tracker is not there yet
tryExecuteOnce(w, present) ==
    IF present THEN [w EXCEPT !.runs = @ + 1, !.timer = FALSE] ELSE w

\* tryExecute: the callback when window.entrolytics is there, else a new timer
tryExecute(w, present) ==
    IF present THEN [w EXCEPT !.runs = @ + 1, !.timer = FALSE]
    ELSE [w EXCEPT !.timer = TRUE]

\* mutant: the first check is deferred to a timer as well
waitForTrackerDeferred(w, window, present) ==
    IF ~window THEN w ELSE [w EXCEPT !.timer = TRUE]

\* waitForTracker(callback): nothing without a window, else one tryExecute
waitForTracker(w, window, present) == IF ~window THEN w ELSE tryExecute(w, present)

\* window.entrolytics?.track(...) / ?.identify(...) for each callback run of w
Delegate(old, new, i, present) ==
    IF new.runs > old.runs /\ present
    THEN <<[call |-> i, method |-> new.call.callback.method,
            args |-> new.call.callback.args]>>
    ELSE << >>

\* page code calls a dispatcher
Dispatcher(d) ==
    /\ Len(waits) < MaxWaits
    /\ LET w == waitForTracker(Wait(d), hasWindow, tracker)
       IN  /\ waits' = Append(waits, w)
           /\ delivered' = delivered \o Delegate(Wait(d), w, Len(waits) + 1, tracker)
    /\ UNCHANGED tracker

\* the 100 ms timer of call i fires: tryExecute runs again
TimerFires(i) ==
    /\ i \in 1 .. Len(waits)
    /\ waits[i].timer
    /\ LET w == tryExecute([waits[i] EXCEPT !.timer = FALSE], tracker)
       IN  /\ waits' = [waits EXCEPT ![i] = w]
           /\ delivered' = delivered \o Delegate(waits[i], w, i, tracker)
    /\ UNCHANGED tracker

\* the tracking script has loaded and set window.entrolytics
TrackerAppears ==
    /\ hasWindow
    /\ ~tracker
    /\ tracker' = TRUE
    /\ UNCHANGED <<waits, delivered>>

\* page code removes window.entrolytics
TrackerRemoved ==
    /\ tracker
    /\ tracker' = FALSE
    /\ UNCHANGED <<waits, delivered>>

WaitIdle ==
    /\ tracker = FALSE
    /\ waits = << >>
    /\ delivered = << >>

----------------------------------------------------------------------------
(* Specifications *)

\* the build: entrolytics(options), then the astro:config:setup hook
BuildInit ==
    /\ options \in OptionInputs
    /\ metaEnv \in EnvInputs
    /\ BuildIdle
    /\ hasWindow = FALSE
    /\ FormIdle
    /\ WaitIdle
BuildNext ==
    \/ Entrolytics /\ UNCHANGED <<hasWindow, formVars, waitVars>>
    \/ ConfigSetup /\ UNCHANGED <<hasWindow, formVars, waitVars>>
BuildSpec == BuildInit /\ [][BuildNext]_vars

NoBuild ==
    /\ options = [n \in {"websiteId", "host"} \cup FlagNames |-> Undefined]
    /\ metaEnv = Undefined
    /\ BuildIdle

\* a page using a form tracker and the collectors
FormInit ==
    /\ NoBuild
    /\ hasWindow \in BOOLEAN
    /\ FormIdle
    /\ WaitIdle
OnlyForm == UNCHANGED <<buildVars, hasWindow, waitVars>>
FormNext ==
    \/ TrackStart /\ OnlyForm
    \/ (\E f \in Fields : TrackFieldFocus(f, Undefined, Undefined)) /\ OnlyForm
    \/ (\E f \in Fields : TrackFieldBlur(f, Undefined, Undefined)) /\ OnlyForm
    \/ (\E f \in Fields : TrackFieldError(f, "required", Undefined, Undefined)) /\ OnlyForm
    \/ (\E success \in BOOLEAN : TrackSubmit(success)) /\ OnlyForm
    \/ TrackAbandon /\ OnlyForm
    \/ (\E data \in VitalInputs : TrackVital(data)) /\ OnlyForm
    \/ (\E data \in DirectFormInputs : TrackFormEvent(data)) /\ OnlyForm
    \/ (\E i \in 1 .. Len(calls) : \E ok \in BOOLEAN : FetchSettles(i, ok)) /\ OnlyForm
    \/ ConfigSnippetRuns /\ OnlyForm
FormSpec == FormInit /\ [][FormNext]_vars

\* a page calling the dispatchers
WaitInit ==
    /\ NoBuild
    /\ hasWindow \in BOOLEAN
    /\ FormIdle
    /\ WaitIdle
OnlyWait == UNCHANGED <<buildVars, hasWindow, formVars>>
WaitNext ==
    \/ (\E d \in DispatchInputs : Dispatcher(d)) /\ OnlyWait
    \/ (\E i \in 1 .. Len(waits) : TimerFires(i)) /\ OnlyWait
    \/ TrackerAppears /\ OnlyWait
    \/ TrackerRemoved /\ OnlyWait
WaitSpec == WaitInit /\ [][WaitNext]_vars
\* the event loop runs every timer that is due
WaitFairSpec ==
    WaitSpec /\ \A i \in 1 .. MaxWaits : WF_vars(TimerFires(i) /\ OnlyWait)

Spec == FormSpec

----------------------------------------------------------------------------
(* Claims about the build: checked under BuildSpec *)

\* the script tag and the config snippet among the latest hook run's injections
IsTag(x) == "attributes" \in DOMAIN x.content
IsSnippet(x) == "assigns" \in DOMAIN x.content
TagAt == {i \in 1 .. Len(injected) : IsTag(injected[i])}
SnippetAt == {i \in 1 .. Len(injected) : IsSnippet(injected[i])}
TagAttributes == injected[CHOOSE i \in TagAt : TRUE].content.attributes
AttrNames(attrs) == {attrs[i].name : i \in 1 .. Len(attrs)}
AttrValue(attrs, n) == (CHOOSE a \in {attrs[i] : i \in 1 .. Len(attrs)} : a.name = n).value

\* the optional attributes the documented defaults call for: one per option
\* whose value differs from its default
NonDefaultAttrs(o) ==
    {n \in {"data-auto-track"} : o.autoTrack = Some(FALSE)}
    \cup {n \in {"data-track-outbound-links"} : o.trackOutboundLinks = Some(FALSE)}
    \cup {n \in {"data-track-file-downloads"} : o.trackFileDownloads = Some(TRUE)}
    \cup {n \in {"data-do-not-track"} : o.respectDnt = Some(TRUE)}
    \cup {n \in {"data-domains"} : o.domains # Undefined /\ Get(o.domains) # << >>}
    \cup {n \in {"data-tag"} : TruthyStr(o.tag)}
    \cup {n \in {"data-exclude-search"} : o.excludeSearch = Some(TRUE)}
    \cup {n \in {"data-exclude-hash"} : o.excludeHash = Some(TRUE)}

\* C1: for every option set with a non-empty websiteId the script tag holds
\* src, data-website-id and defer, and an optional data-* attribute exactly for
\* the options whose value differs from the documented default
\* (trackOutboundLinks, default true, included).
C1_OnlyNonDefaultAttributes ==
    buildPc = "setup" =>
        AttrNames(TagAttributes) =
            {"src", "data-website-id", "defer"} \cup NonDefaultAttrs(options)

\* an absent or empty string
NoValue(o) == o = Undefined \/ Get(o) = << >>
NoWebsiteIdAnywhere ==
    /\ NoValue(options.websiteId)
    /\ NoValue(EnvOf(metaEnv).PUBLIC_ENTROLYTICS_WEBSITE_ID)
    /\ NoValue(EnvOf(metaEnv).VITE_ENTROLYTICS_WEBSITE_ID)

C8_SnippetBeforeTag ==
    buildPc = "setup" =>
        /\ Cardinality(SnippetAt) = 1
        /\ Cardinality(TagAt) = 1
        /\ \A i \in SnippetAt : \A j \in TagAt :
              /\ i < j
              /\ injected[i].stage = "head-inline"
              /\ injected[j].stage = "head-inline"
              /\ LET obj == injected[i].content.object
                     host == Get(Get(finalOptions).host)
                 IN  /\ DOMAIN obj = {"websiteId", "host"}
                     /\ obj.websiteId = Get(finalOptions).websiteId
                     /\ obj.host \o When(host # << >> /\ host[Len(host)] = SLASH, <<SLASH>>)
                          = host

C8_Witness ==
    /\ buildPc = "setup"
    /\ Len(injected) = 3
    /\ Get(Get(finalOptions).host) = XHost \o <<SLASH>>

\* C9: the src of the script tag is the host with exactly one trailing slash
\* removed (none if there is none) followed by /script-edge.js when
\* useEdgeRuntime is true or unset and /script.js when it is false; so a host
\* and the same host with one more slash after it give the same tag and snippet.
C9_ScriptUrl ==
    buildPc = "setup" =>
        LET fo == Get(finalOptions)
            host == Get(fo.host)
            slashed == host # << >> /\ host[Len(host)] = SLASH
            path == IF fo.useEdgeRuntime = Some(FALSE) THEN <<SLASH, "script.js">>
                                                       ELSE <<SLASH, "script-edge.js">>
            src == Get(AttrValue(TagAttributes, "src"))
            more == [fo EXCEPT !.host = Some(host \o <<SLASH>>)]
            base == IF slashed THEN SubSeq(host, 1, Len(host) - 1) ELSE host
        IN  /\ src = base \o path
            /\ ~slashed =>
                 SetupInjections(more, [Get(closure) EXCEPT !.host = host \o <<SLASH>>])
                    = injected

C9_Witness ==
    /\ buildPc = "setup"
    /\ Get(Get(finalOptions).host) = XHost \o <<SLASH, SLASH>>
    /\ Get(finalOptions).useEdgeRuntime = Some(FALSE)

RECURSIVE FirstNonEmpty(_)
\* the first non-empty string of a list of optional strings
FirstNonEmpty(list) ==
    IF list = << >> THEN Undefined
    ELSE IF ~NoValue(Head(list)) THEN Head(list)
    ELSE FirstNonEmpty(Tail(list))

C10_State ==
    buildPc \in {"resolved", "setup"} =>
        LET env == EnvOf(metaEnv)
            id == FirstNonEmpty(<<options.websiteId, env.PUBLIC_ENTROLYTICS_WEBSITE_ID,
                                  env.VITE_ENTROLYTICS_WEBSITE_ID>>)
            host == FirstNonEmpty(<<options.host, env.PUBLIC_ENTROLYTICS_HOST,
                                    env.VITE_ENTROLYTICS_HOST, Some(DEFAULT_HOST)>>)
        IN  /\ Get(closure) = [websiteId |-> Get(id), host |-> Get(host)]
            /\ Get(finalOptions).websiteId = Get(id)
            /\ Get(finalOptions).host = host
            /\ ~NoValue(options.websiteId) => Get(closure).websiteId = Get(options.websiteId)
            /\ ~NoValue(options.host) => Get(closure).host = Get(options.host)

----------------------------------------------------------------------------
(* Claims about the form tracker and the collectors: checked under FormSpec *)

EventTypes == [i \in 1 .. Len(calls) |-> calls[i].data.eventType]

\* C3: after a sequence of tracker calls that ends with trackSubmit the session
\* is in its initial state; a trackFieldFocus that finds no start time (on a new
\* tracker or after a submit) emits start and then field_focus with
\* timeSinceStart measured from the start it has just taken; a trackFieldBlur of
\* a field focused only before the submit has no timeOnField.
C3_SubmitResets ==
    /\ lastOp.op = "trackSubmit" =>
          /\ startTime = Undefined
          /\ \A f \in Fields : fieldStartTimes[f] = Undefined
    /\ (lastOp.op = "trackFieldFocus" /\ lastOp.preStart = Undefined) =>
          /\ EventTypes = <<"start", "field_focus">>
          /\ Len(lastOp.stamps) = 3
          /\ startTime = Some(lastOp.stamps[1])
          /\ calls[2].data.timeSinceStart = Some(lastOp.stamps[3] - lastOp.stamps[1])
    /\ (lastOp.op = "trackFieldBlur" /\ lastOp.field \in everFocused \ sinceReset) =>
          /\ EventTypes = <<"field_blur">>
          /\ calls[1].data.timeOnField = Undefined

\* a focus that starts a new session after a submit ended one in which the
\* other field had been focused, the clock having moved on meanwhile
C3_Witness ==
    /\ lastOp.op = "trackFieldFocus"
    /\ lastOp.preStart = Undefined
    /\ everFocused # sinceReset
    /\ lastOp.stamps[1] > 1
    /\ lastOp.stamps[3] > lastOp.stamps[1]

\* C5: with no global configuration, every trackVital / trackFormEvent call
\* (those of the form tracker's methods too) settles without rejecting and
\* makes no request; in a browser it logs the warning and nothing else.
C5_NoConfigNoRequest ==
    \A i \in 1 .. Len(calls) :
        calls[i].cfg = Undefined =>
            /\ calls[i].posts = << >>
            /\ calls[i].promise = "fulfilled"
            /\ calls[i].console = When(hasWindow, <<ConfigWarning>>)

C5_Witness ==
    /\ hasWindow
    /\ config = Undefined
    /\ lastOp.op = "trackFieldFocus"
    /\ Len(calls) = 2
    /\ calls[1].cfg = Undefined /\ calls[2].cfg = Undefined

\* C6: a field_blur for a field with no recorded focus time (not focused since
\* creation or since the last submit) has no timeOnField, and it has a
\* timeSinceStart exactly when a start time is recorded at the blur.
C6_BlurWithoutFocus ==
    lastOp.op = "trackFieldBlur" =>
        /\ EventTypes = <<"field_blur">>
        /\ lastOp.field \notin sinceReset => calls[1].data.timeOnField = Undefined
        /\ calls[1].data.timeSinceStart # Undefined <=> lastOp.preStart # Undefined
        /\ lastOp.preStart # Undefined =>
              calls[1].data.timeSinceStart = Some(lastOp.stamps[2] - Get(lastOp.preStart))

C6_Witness ==
    /\ lastOp.op = "trackFieldBlur"
    /\ lastOp.field \notin sinceReset
    /\ sinceReset # {}
    /\ calls[1].data.timeSinceStart = Some(1)

CollectLeaf(fn) == IF fn = "trackVital" THEN "vitals" ELSE "forms"

\* C7: with config present each trackVital / trackFormEvent call makes at most
\* one POST, to {host}/api/collect/vitals or /forms; when that POST fails the
\* failure is logged, the promise is fulfilled, not rejected, and no further
\* request is made.
C7_OnePostNoRetry ==
    \A i \in 1 .. Len(calls) :
        calls[i].cfg # Undefined =>
            /\ Len(calls[i].posts) <= 1
            /\ \A k \in 1 .. Len(calls[i].posts) :
                  /\ calls[i].posts[k].method = "POST"
                  /\ calls[i].posts[k].url =
                        Get(calls[i].cfg).host
                        \o <<SLASH, "api", SLASH, "collect", SLASH, CollectLeaf(calls[i].fn)>>
            /\ calls[i].promise # "rejected"
            /\ calls[i].fetched = "failed" =>
                  /\ calls[i].promise = "fulfilled"
                  /\ calls[i].console = <<CatchError(calls[i].fn)>>
                  /\ Len(calls[i].posts) = 1

C7_Witness ==
    /\ Len(calls) = 2
    /\ calls[1].fetched = "ok"
    /\ calls[2].fetched = "failed"
    /\ calls[2].fn = "trackFormEvent"

----------------------------------------------------------------------------
(* Claims about the dispatchers: checked under WaitFairSpec *)

Runs(ws, i) == IF i \in 1 .. Len(ws) THEN ws[i].runs ELSE 0
Deliveries(i) == {k \in 1 .. Len(delivered) : delivered[k].call = i}

\* at every moment a call made in a browser has either run its callback once,
\* with no timer left, or not run it and has its next poll scheduled
C4_State ==
    hasWindow =>
        \A i \in 1 .. Len(waits) :
            /\ waits[i].runs <= 1
            /\ waits[i].timer <=> waits[i].runs = 0
            /\ Cardinality(Deliveries(i)) = waits[i].runs

\* call i has been made, has run its callback once and has no timer left
RanOnce(i) == i \in 1 .. Len(waits) /\ waits[i].runs = 1 /\ ~waits[i].timer

\* a callback runs only in a step that finds the tracker present
C4_Step == \A i \in 1 .. Len(waits') : Runs(waits', i) > Runs(waits, i) => tracker

\* C4: a dispatcher call in a browser returns at once; its callback is never
\* run at a check that finds no tracker and is run at most once; if the tracker
\* becomes and stays present the callback is eventually run exactly once and no
\* further poll is scheduled; if the tracker never appears the callback never
\* runs and a next poll stays scheduled.
C4_WaitForTracker ==
    /\ []C4_State
    /\ [][C4_Step]_vars
    /\ \A i \in 1 .. MaxWaits :
          <>[]tracker =>
              [](Len(waits) >= i => <>RanOnce(i))
    /\ []~tracker => [](\A i \in 1 .. Len(waits) : waits[i].runs = 0)

\* the first call has run after the second, so it waited on its timer
C4_Witness ==
    /\ hasWindow
    /\ Len(waits) = 2
    /\ Len(delivered) = 2
    /\ delivered[1].call = 2
    /\ waits[1].runs = 1

----------------------------------------------------------------------------
(* Claims about the form tracker, continued: checked under FormSpec *)

FrameOps == {"trackFieldBlur", "trackFieldError", "trackAbandon"}

\* a step that ends with one of the three as the latest operation (the
\* operation itself, or a fetch settling or the config snippet running after
\* it) changes neither the start time nor the field-focus map
C11_Step ==
    lastOp'.op \in FrameOps =>
        /\ startTime' = startTime
        /\ fieldStartTimes' = fieldStartTimes

\* a trackSubmit that directly follows a trackAbandon measures from the start
\* time the abandon found
C11_SubmitAfterAbandon ==
    (lastOp.op = "trackAbandon" /\ lastOp'.op = "trackSubmit") =>
        /\ lastOp'.preStart = lastOp.preStart
        /\ calls'[1].data.timeSinceStart =
              IF lastOp.preStart = Undefined THEN Undefined
              ELSE Some(lastOp'.stamps[1] - Get(lastOp.preStart))

\* after one of the three the session state is the one the operation found
C11_State ==
    lastOp.op \in FrameOps =>
        /\ startTime = lastOp.preStart
        /\ lastOp.field \in Fields => fieldStartTimes[lastOp.field] = lastOp.preField

\* C11: trackFieldBlur, trackFieldError and trackAbandon leave the start time
\* and the field-focus map unchanged, so later events still measure from the
\* original start and focus; a trackSubmit after a trackAbandon reports the
\* time elapsed since the original start.
C11_FrameOpsKeepSession ==
    /\ []C11_State
    /\ [][C11_Step /\ C11_SubmitAfterAbandon]_vars

\* an abandon in a running session with a focused field, the clock having moved
C11_Witness ==
    /\ lastOp.op = "trackAbandon"
    /\ startTime # Undefined
    /\ sinceReset # {}
    /\ calls[1].data.timeSinceStart = Some(2)

----------------------------------------------------------------------------
(* Claims about the dispatchers, continued: checked under WaitFairSpec *)

\* the arguments page code gave to call i
CallFn(i) == waits[i].call.fn
CallArgs(i) == waits[i].call.args

\* C12: once the tracker is present, trackRevenue(eventName, revenue, currency,
\* data) calls the tracker's track with that event name and one object holding
\* every key of data plus revenue and currency (USD when omitted); the revenue
\* and currency arguments win over keys of the same name in data.
C12_RevenuePayload ==
    \A k \in 1 .. Len(delivered) :
        CallFn(delivered[k].call) = "trackRevenue" =>
            LET a == CallArgs(delivered[k].call)
                data == IF a[4] = Undefined THEN << >> ELSE Get(a[4])
                sent == delivered[k].args
            IN  /\ delivered[k].method = "track"
                /\ Len(sent) = 2
                /\ sent[1] = Some(a[1])
                /\ LET p == Get(sent[2])
                   IN  /\ DOMAIN p = DOMAIN data \cup {"revenue", "currency"}
                       /\ p["revenue"] = a[2]
                       /\ p["currency"] = IF a[3] = Undefined THEN "USD" ELSE Get(a[3])
                       /\ \A key \in DOMAIN data \ {"revenue", "currency"} :
                             p[key] = data[key]

\* a delivered trackRevenue whose data had its own revenue and currency keys
\* and whose currency argument was omitted
C12_Witness ==
    \E k \in 1 .. Len(delivered) :
        /\ CallFn(delivered[k].call) = "trackRevenue"
        /\ CallArgs(delivered[k].call)[3] = Undefined
        /\ CallArgs(delivered[k].call)[4] = Some([revenue |-> 1, currency |-> "GBP"])
        /\ waits[delivered[k].call].runs = 1

----------------------------------------------------------------------------
(* Claims about the form tracker, continued: checked under FormSpec *)

\* only a focus of field f or a submit changes the focus time recorded for f
C13_Step ==
    \A f \in Fields :
        fieldStartTimes'[f] # fieldStartTimes[f] =>
            \/ lastOp'.op = "trackFieldFocus" /\ lastOp'.field = f
            \/ lastOp'.op = "trackSubmit"

C13_State ==
    /\ lastOp.op = "trackFieldFocus" =>
          LET n == Len(lastOp.stamps)
          IN  \* a start event exactly when no start time was recorded, and first
              /\ lastOp.preStart = Undefined => EventTypes = <<"start", "field_focus">>
              /\ lastOp.preStart # Undefined =>
                    /\ EventTypes = <<"field_focus">>
                    /\ startTime = lastOp.preStart
              \* the focus time is overwritten with the clock's reading
              /\ fieldStartTimes[lastOp.field] = Some(lastOp.stamps[n - 1])
              /\ lastOp.preField # Undefined =>
                    Get(lastOp.preField) <= lastOp.stamps[n - 1]
              /\ calls[Len(calls)].data.timeSinceStart =
                    Some(lastOp.stamps[n] - Get(startTime))
    /\ lastOp.op = "trackStart" =>
          /\ EventTypes = <<"start">>
          /\ startTime = Some(lastOp.stamps[1])
          /\ lastOp.stamps[1] = now
    \* a blur measures from the focus time recorded when it is called
    /\ (lastOp.op = "trackFieldBlur" /\ lastOp.preField # Undefined) =>
          calls[1].data.timeOnField = Some(lastOp.stamps[1] - Get(lastOp.preField))

\* C13: trackFieldFocus emits a start event if and only if no start time is
\* recorded when it is called, and then before its field_focus event;
\* trackStart always sets the start time to the current time and emits start;
\* trackFieldFocus always overwrites the field's focus time with the current
\* time, so a later blur measures from the most recent focus.
C13_StartAndFocus == []C13_State /\ [][C13_Step]_vars

\* a second focus of a field in a running session, later than the first
C13_Witness ==
    /\ lastOp.op = "trackFieldFocus"
    /\ lastOp.preStart # Undefined
    /\ lastOp.preField # Undefined
    /\ Get(fieldStartTimes[lastOp.field]) > Get(lastOp.preField)
    /\ EventTypes = <<"field_focus">>

----------------------------------------------------------------------------
(* Claims about the order of delivery: checked under WaitFairSpec *)

\* C14 as stated: the tracker receives the delegated calls in the order in
\* which page code called the dispatchers, for every interleaving of the
\* calls, the tracker's appearance and the poll timers.
C14_CallOrder ==
    \A k, l \in 1 .. Len(delivered) :
        k < l => delivered[k].call < delivered[l].call

\* call i is made in this step
Called(i) == Len(waits) = i - 1 /\ Len(waits') = i

C14_Step ==
    \* deliveries are only ever appended, one per step
    /\ \/ delivered' = delivered
       \/ /\ Len(delivered') = Len(delivered) + 1
          /\ SubSeq(delivered', 1, Len(delivered)) = delivered
          /\ LET e == delivered'[Len(delivered')]
             IN  \* to a tracker that is present, and once per call
                 /\ hasWindow /\ tracker
                 /\ Deliveries(e.call) = {}
                 \* every earlier call is delivered or waits on its own timer
                 /\ \A i \in 1 .. e.call - 1 :
                       Deliveries(i) # {} \/ waits[i].timer
    \* a call made while the tracker is present is delivered within the call
    /\ \A i \in 1 .. MaxWaits :
          (Called(i) /\ hasWindow /\ tracker) =>
              /\ Len(delivered') = Len(delivered) + 1
              /\ delivered'[Len(delivered')].call = i
    \* a call made while it is absent is left to its own timer
    /\ \A i \in 1 .. MaxWaits :
          (Called(i) /\ hasWindow /\ ~tracker) =>
              /\ delivered' = delivered
              /\ waits'[i].timer

\* C14, amended: each call is delivered at most once and only at a check that
\* finds the tracker present; a call made while the tracker is present is
\* delivered during the call itself; a call made while it is absent is
\* delivered by its own poll timer, so a later call can overtake it, and every
\* earlier call that a delivery overtakes is still waiting on its timer.
C14_DeliveryOrder == [][C14_Step]_vars

\* the second call is delivered while the first still waits on its timer
C14_Witness ==
    /\ hasWindow
    /\ Len(waits) = 2
    /\ Len(delivered) = 1
    /\ delivered[1].call = 2
    /\ waits[1].timer

----------------------------------------------------------------------------
(* Claims about the times a blur reports: checked under FormSpec *)

\* the latest operation is a blur whose event carries both elapsed times
BlurWithBoth ==
    /\ lastOp.op = "trackFieldBlur"
    /\ calls[1].data.timeOnField # Undefined
    /\ calls[1].data.timeSinceStart # Undefined

\* C15 as stated: in every field_blur event that carries both values,
\* timeOnField is at most timeSinceStart, for every sequence of tracker calls
\* under a non-decreasing clock (a recorded focus time is never earlier than
\* the recorded start time).
C15_FieldWithinSession ==
    BlurWithBoth =>
        Get(calls[1].data.timeOnField) <= Get(calls[1].data.timeSinceStart)

\* every recorded focus time belongs to a session that started no later
FocusAfterStart ==
    \A f \in Fields :
        fieldStartTimes[f] # Undefined =>
            /\ startTime # Undefined
            /\ Get(startTime) <= Get(fieldStartTimes[f])

C15_State ==
    (BlurWithBoth /\ Get(lastOp.preStart) <= Get(lastOp.preField)) =>
        Get(calls[1].data.timeOnField) <= Get(calls[1].data.timeSinceStart)

\* only a trackStart that finds a focus time recorded moves the start time
\* past a focus time
C15_Step ==
    (FocusAfterStart /\ ~FocusAfterStart') =>
        /\ lastOp'.op = "trackStart"
        /\ startTime' = Some(now')
        /\ \E f \in Fields : fieldStartTimes[f] # Undefined

\* C15, amended: in a field_blur event that carries both values, timeOnField is
\* at most timeSinceStart whenever the field's recorded focus time is not
\* earlier than the recorded start time; that ordering is kept by every
\* tracker call under a non-decreasing clock except a trackStart called while
\* a focus time is recorded, which moves the start time to the current time.
C15_FieldWithinSessionUnlessRestarted == []C15_State /\ [][C15_Step]_vars

\* a blur of a field focused after the session started
C15_Witness ==
    /\ BlurWithBoth
    /\ FocusAfterStart
    /\ Get(lastOp.preStart) < Get(lastOp.preField)
    /\ Get(calls[1].data.timeOnField) < Get(calls[1].data.timeSinceStart)

====
